---- MODULE Spec2Model ----
(***************************************************************************)
(* Model of scripts/measure-final.ts: the orchestration script that        *)
(* validates the framework builds, runs scripts/measure-single.ts once per *)
(* framework and writes the three report files.                            *)
(*                                                                         *)
(* Strings that the code inspects character by character (the command-line *)
(* arguments given to parseInt) are sequences of one-character strings.    *)
(* A JavaScript number is a record [nan |-> BOOLEAN, v |-> Int].           *)
(***************************************************************************)
EXTENDS Integers, Sequences, FiniteSets, TLC

(***************************************************************************)
(* Bounds of the model.                                                    *)
(***************************************************************************)
\* the model runs the first NumFrameworks entries of FRAMEWORKS
NumFrameworks == 3
\* longest process.argv.slice(2) explored by SpecArgs
MaxArgs == 3
\* longest record list one measure-single.ts run prints
MaxRecords == 1

(***************************************************************************)
(* Static configuration.                                                   *)
(***************************************************************************)
FRAMEWORKS_ALL ==
  << [name |-> "Next.js", dir |-> "kanban-nextjs", buildCheck |-> <<".next", "dist">>],
     [name |-> "Nuxt", dir |-> "kanban-nuxt", buildCheck |-> <<".output", "dist">>],
     [name |-> "Analog", dir |-> "kanban-analog", buildCheck |-> <<"dist">>],
     [name |-> "SolidStart", dir |-> "kanban-solidstart", buildCheck |-> <<".output", "dist">>],
     [name |-> "SvelteKit", dir |-> "kanban-sveltekit", buildCheck |-> <<".svelte-kit", "build">>],
     [name |-> "Qwik", dir |-> "kanban-qwikcity", buildCheck |-> <<"dist">>],
     [name |-> "Astro", dir |-> "kanban-htmx", buildCheck |-> <<"dist">>],
     [name |-> "TanStack Start", dir |-> "kanban-tanstack", buildCheck |-> <<".output", "dist">>],
     [name |-> "TanStack Start + Solid", dir |-> "kanban-tanstack-solid", buildCheck |-> <<".output", "dist">>],
     [name |-> "Marko", dir |-> "kanban-marko", buildCheck |-> <<"dist", "build">>],
     [name |-> "Go-Datastar", dir |-> "kanban-go-datastar", buildCheck |-> <<"bin">>],
     [name |-> "Hono-Datastar", dir |-> "kanban-hono-datastar", buildCheck |-> <<"dist">>] >>

Min(a, b) == IF a < b THEN a ELSE b

FRAMEWORKS == SubSeq(FRAMEWORKS_ALL, 1, Min(NumFrameworks, Len(FRAMEWORKS_ALL)))

FrameworkNames == [k \in 1..Len(FRAMEWORKS) |-> FRAMEWORKS[k].name]

\* the default of numRuns
DefaultRuns == 10
\* the divisor of formatKB
BytesPerKB == 1024

NET_4G == <<"4", "g">>
NET_3G == <<"3", "g">>
NET_SLOW_3G == <<"s", "l", "o", "w", "-", "3", "g">>
NetworkConditions == {NET_4G, NET_3G, NET_SLOW_3G}
DefaultNetwork == NET_4G

JSON_FILE == "final-measurements.json"
MD_FILE == "final-measurements.md"
LEGACY_FILE == "bundle-summary.json"
ReportFiles == <<JSON_FILE, MD_FILE, LEGACY_FILE>>

(***************************************************************************)
(* Strings and numbers.                                                    *)
(***************************************************************************)
RUNS_FLAG == <<"-", "-", "r", "u", "n", "s">>
NETWORK_FLAG == <<"-", "-", "n", "e", "t", "w", "o", "r", "k">>

DigitValue ==
  [c \in {"0", "1", "2", "3", "4", "5", "6", "7", "8", "9"} |->
     CASE c = "0" -> 0 [] c = "1" -> 1 [] c = "2" -> 2 [] c = "3" -> 3
       [] c = "4" -> 4 [] c = "5" -> 5 [] c = "6" -> 6 [] c = "7" -> 7
       [] c = "8" -> 8 [] c = "9" -> 9]

IsDigit(c) == c \in DOMAIN DigitValue

NaN == [nan |-> TRUE, v |-> 0]
Num(n) == [nan |-> FALSE, v |-> n]
isNaN(x) == x.nan

\* the digits of s from position p on, read in base 10 after the value acc
RECURSIVE ParseDigits(_, _, _)
ParseDigits(s, p, acc) ==
  IF p > Len(s) \/ ~IsDigit(s[p]) THEN acc
  ELSE ParseDigits(s, p + 1, acc * 10 + DigitValue[s[p]])

RECURSIVE SkipWhite(_, _)
SkipWhite(s, p) == IF p <= Len(s) /\ s[p] = " " THEN SkipWhite(s, p + 1) ELSE p

\* parseInt(s, 10): leading blanks, an optional sign, then the longest run of
\* digits; NaN when there is no digit
parseInt(s) ==
  LET p0 == SkipWhite(s, 1)
      signed == p0 <= Len(s) /\ s[p0] \in {"-", "+"}
      neg == signed /\ s[p0] = "-"
      p1 == IF signed THEN p0 + 1 ELSE p0
  IN IF p1 > Len(s) \/ ~IsDigit(s[p1]) THEN NaN
     ELSE LET m == ParseDigits(s, p1, 0) IN Num(IF neg THEN 0 - m ELSE m)

VARIABLES
  pc,                \* position of main()
  args,              \* process.argv.slice(2)
  i,                 \* index of the argument loop (1-based)
  numRuns,           \* JS number
  networkCondition,
  disk,              \* the paths that exist: <<dir, buildDir>> and <<"metrics">>
  checked,           \* names of the frameworks given to checkBuildExists, in order
  missingBuilds,
  started,           \* the measure-single.ts commands launched, in order
  running,           \* names of the frameworks whose subprocess is in flight
  procLog,           \* what each finished subprocess did, in order
  allResults,
  failedFrameworks,
  written,           \* the writeFileSync calls, in order: [path, content]
  exitCode           \* -1 while the process runs, then its exit status

vars == <<pc, args, i, numRuns, networkCondition, disk, checked, missingBuilds,
          started, running, procLog, allResults, failedFrameworks, written, exitCode>>

(***************************************************************************)
(* Command-line arguments (main, argument loop).                           *)
(***************************************************************************)
\* a variant that accepts --runs 0
ParseArg_lax ==
  /\ pc = "args"
  /\ i <= Len(args)
  /\ IF args[i] = RUNS_FLAG /\ i + 1 <= Len(args)
     THEN LET n == parseInt(args[i + 1]) IN
          /\ numRuns' = n
          /\ UNCHANGED networkCondition
          /\ IF isNaN(n) \/ n.v < 0
             THEN pc' = "exit" /\ exitCode' = 1 /\ i' = i
             ELSE pc' = pc /\ exitCode' = exitCode /\ i' = i + 2
     ELSE IF args[i] = NETWORK_FLAG /\ i + 1 <= Len(args)
     THEN LET n == args[i + 1] IN
          /\ networkCondition' = n
          /\ UNCHANGED numRuns
          /\ IF n \notin NetworkConditions
             THEN pc' = "exit" /\ exitCode' = 1 /\ i' = i
             ELSE pc' = pc /\ exitCode' = exitCode /\ i' = i + 2
     ELSE /\ i' = i + 1
          /\ UNCHANGED <<numRuns, networkCondition, pc, exitCode>>
  /\ UNCHANGED <<args, disk, checked, missingBuilds, started, running, procLog,
                 allResults, failedFrameworks, written>>

\* one iteration of the for loop over args
ParseArg ==
  /\ pc = "args"
  /\ i <= Len(args)
  /\ IF args[i] = RUNS_FLAG /\ i + 1 <= Len(args)
     THEN LET n == parseInt(args[i + 1]) IN
          /\ numRuns' = n
          /\ UNCHANGED networkCondition
          /\ IF isNaN(n) \/ n.v < 1
             THEN pc' = "exit" /\ exitCode' = 1 /\ i' = i
             ELSE pc' = pc /\ exitCode' = exitCode /\ i' = i + 2
     ELSE IF args[i] = NETWORK_FLAG /\ i + 1 <= Len(args)
     THEN LET n == args[i + 1] IN
          /\ networkCondition' = n
          /\ UNCHANGED numRuns
          /\ IF n \notin NetworkConditions
             THEN pc' = "exit" /\ exitCode' = 1 /\ i' = i
             ELSE pc' = pc /\ exitCode' = exitCode /\ i' = i + 2
     ELSE /\ i' = i + 1
          /\ UNCHANGED <<numRuns, networkCondition, pc, exitCode>>
  /\ UNCHANGED <<args, disk, checked, missingBuilds, started, running, procLog,
                 allResults, failedFrameworks, written>>

\* the loop over args ends; main goes on to validate the builds
ArgsDone ==
  /\ pc = "args"
  /\ i > Len(args)
  /\ pc' = "validate"
  /\ UNCHANGED <<args, i, numRuns, networkCondition, disk, checked, missingBuilds,
                 started, running, procLog, allResults, failedFrameworks, written,
                 exitCode>>

(***************************************************************************)
(* Build validation.                                                       *)
(***************************************************************************)
RECURSIVE ExistsFrom(_, _, _)
ExistsFrom(framework, d, b) ==
  IF b > Len(framework.buildCheck) THEN FALSE
  ELSE IF <<framework.dir, framework.buildCheck[b]>> \in d THEN TRUE
  ELSE ExistsFrom(framework, d, b + 1)

\* a variant that wants every build directory to exist
checkBuildExists_every(framework, d) ==
  \A b \in 1..Len(framework.buildCheck) : <<framework.dir, framework.buildCheck[b]>> \in d

checkBuildExists(framework, d) == ExistsFrom(framework, d, 1)

\* one iteration of the for loop over FRAMEWORKS that validates the builds
ValidateBuild ==
  /\ pc = "validate"
  /\ Len(checked) < Len(FRAMEWORKS)
  /\ LET framework == FRAMEWORKS[Len(checked) + 1] IN
     /\ checked' = Append(checked, framework.name)
     /\ missingBuilds' = IF ~checkBuildExists(framework, disk)
                         THEN Append(missingBuilds, framework.name)
                         ELSE missingBuilds
  /\ UNCHANGED <<pc, args, i, numRuns, networkCondition, disk, started, running,
                 procLog, allResults, failedFrameworks, written, exitCode>>

\* if (missingBuilds.length > 0) process.exit(1)
ValidateDone ==
  /\ pc = "validate"
  /\ Len(checked) = Len(FRAMEWORKS)
  /\ IF Len(missingBuilds) > 0
     THEN pc' = "exit" /\ exitCode' = 1
     ELSE pc' = "measure" /\ exitCode' = exitCode
  /\ UNCHANGED <<args, i, numRuns, networkCondition, disk, checked, missingBuilds,
                 started, running, procLog, allResults, failedFrameworks, written>>

(***************************************************************************)
(* Measurement loop.                                                       *)
(***************************************************************************)
Pages == {"board", "home"}
CHROME_VERSION == "HeadlessChrome/141"
COMPRESSION_TYPE == "br"

\* the AggregatedStats records measure-single.ts can print for a framework;
\* of the statistical summaries only jsUncompressed.median is kept
RecordsOf(name, medians) ==
  [framework : {name}, page : Pages, median : medians,
   chromeVersion : {CHROME_VERSION}, compressionType : {COMPRESSION_TYPE}]

SeqsUpTo(S, n) == UNION {[1..k -> S] : k \in 0..n}

\* what one execSync call can do: throw (non-zero exit, signal, maxBuffer), or
\* return the subprocess's stdout, which is not JSON, or JSON that is no
\* array, or a JSON array of records
Outcomes(name, medians, maxLen) ==
  {[threw |-> TRUE, json |-> FALSE, array |-> FALSE, items |-> <<>>],
   [threw |-> FALSE, json |-> FALSE, array |-> FALSE, items |-> <<>>],
   [threw |-> FALSE, json |-> TRUE, array |-> FALSE, items |-> <<>>]}
  \cup {[threw |-> FALSE, json |-> TRUE, array |-> TRUE, items |-> r] :
          r \in SeqsUpTo(RecordsOf(name, medians), maxLen)}

\* a variant that does not notice output that is no JSON array
TrySucceeds_lax(out) == ~out.threw

\* the try block succeeds: execSync returned, JSON.parse accepted the output
\* and the spread of the parsed value did not throw
TrySucceeds(out) == ~out.threw /\ out.json /\ out.array

\* a variant that does not wait for the subprocess
ExecStart_async ==
  /\ pc = "measure"
  /\ Len(started) < Len(FRAMEWORKS)
  /\ LET framework == FRAMEWORKS[Len(started) + 1] IN
     /\ started' = Append(started, [name |-> framework.name, runs |-> numRuns,
                                    network |-> networkCondition])
     /\ running' = running \cup {framework.name}
  /\ pc' = "measure"
  /\ UNCHANGED <<args, i, numRuns, networkCondition, disk, checked, missingBuilds,
                 procLog, allResults, failedFrameworks, written, exitCode>>

\* a variant whose loop stays on a framework until it succeeds
ExecStart_retry ==
  /\ pc = "measure"
  /\ Len(started) - Len(failedFrameworks) < Len(FRAMEWORKS)
  /\ LET framework == FRAMEWORKS[Len(started) - Len(failedFrameworks) + 1] IN
     /\ started' = Append(started, [name |-> framework.name, runs |-> numRuns,
                                    network |-> networkCondition])
     /\ running' = running \cup {framework.name}
  /\ pc' = "exec"
  /\ UNCHANGED <<args, i, numRuns, networkCondition, disk, checked, missingBuilds,
                 procLog, allResults, failedFrameworks, written, exitCode>>

\* the try block of one iteration up to the blocking execSync call
ExecStart ==
  /\ pc = "measure"
  /\ Len(started) < Len(FRAMEWORKS)
  /\ LET framework == FRAMEWORKS[Len(started) + 1] IN
     /\ started' = Append(started, [name |-> framework.name, runs |-> numRuns,
                                    network |-> networkCondition])
     /\ running' = running \cup {framework.name}
  /\ pc' = "exec"
  /\ UNCHANGED <<args, i, numRuns, networkCondition, disk, checked, missingBuilds,
                 procLog, allResults, failedFrameworks, written, exitCode>>

\* a variant whose catch block ends the run
ExecReturn_abort(out) ==
  /\ pc = "exec"
  /\ LET name == started[Len(started)].name IN
     /\ running' = running \ {name}
     /\ procLog' = Append(procLog, [name |-> name, out |-> out])
     /\ IF TrySucceeds(out)
        THEN /\ allResults' = allResults \o out.items
             /\ UNCHANGED failedFrameworks
        ELSE /\ failedFrameworks' = Append(failedFrameworks, name)
             /\ UNCHANGED allResults
  /\ IF TrySucceeds(out) THEN pc' = "measure" /\ exitCode' = exitCode
     ELSE pc' = "exit" /\ exitCode' = 1
  /\ UNCHANGED <<args, i, numRuns, networkCondition, disk, checked, missingBuilds,
                 started, written>>

\* execSync returns or throws; the rest of the try block, or the catch block
ExecReturn(out) ==
  /\ pc = "exec"
  /\ LET name == started[Len(started)].name IN
     /\ running' = running \ {name}
     /\ procLog' = Append(procLog, [name |-> name, out |-> out])
     /\ IF TrySucceeds(out)
        THEN /\ allResults' = allResults \o out.items
             /\ UNCHANGED failedFrameworks
        ELSE /\ failedFrameworks' = Append(failedFrameworks, name)
             /\ UNCHANGED allResults
  /\ pc' = "measure"
  /\ UNCHANGED <<args, i, numRuns, networkCondition, disk, checked, missingBuilds,
                 started, written, exitCode>>

(***************************************************************************)
(* Reports.                                                                *)
(***************************************************************************)
METRICS_DIR == <<"metrics">>

\* (bytes / 1024).toFixed(1), as a number of tenths: the nearest tenth, the
\* larger one on a tie
formatKB(bytes) == (2 * 10 * bytes + BytesPerKB) \div (2 * BytesPerKB)

\* results.filter(r => r.page === page)
RECURSIVE FilterPage(_, _)
FilterPage(results, page) ==
  IF results = <<>> THEN <<>>
  ELSE IF Head(results).page = page
       THEN <<Head(results)>> \o FilterPage(Tail(results), page)
       ELSE FilterPage(Tail(results), page)

\* a variant that compares the other way round
CompareMedian_desc(a, b) == b.median - a.median

\* the comparator (a, b) => a.jsUncompressed.median - b.jsUncompressed.median
CompareMedian(a, b) == a.median - b.median

\* r put into the sorted sequence s behind every element that does not
\* compare greater than it
RECURSIVE InsertSorted(_, _)
InsertSorted(s, r) ==
  IF s = <<>> THEN <<r>>
  ELSE IF CompareMedian(Head(s), r) <= 0
       THEN <<Head(s)>> \o InsertSorted(Tail(s), r)
       ELSE <<r>> \o s

\* Array.prototype.sort with CompareMedian: ascending and stable
RECURSIVE SortByMedian(_)
SortByMedian(s) ==
  IF s = <<>> THEN <<>>
  ELSE InsertSorted(SortByMedian(SubSeq(s, 1, Len(s) - 1)), s[Len(s)])

\* one table row: the framework and the raw size column
TableRow(r) == [framework |-> r.framework, raw |-> formatKB(r.median)]

\* generateMarkdownTable(results, page): the section it returns
generateMarkdownTable(results, page) ==
  LET pageResults == FilterPage(results, page)
      sortedByBundle == SortByMedian(pageResults)
  IN [title |-> IF page = "home" THEN "Home Page Performance"
                ELSE "Board Page Performance",
      rows |-> [k \in 1..Len(sortedByBundle) |-> TableRow(sortedByBundle[k])],
      compression |-> IF sortedByBundle # <<>>
                      THEN sortedByBundle[1].compressionType ELSE "gzip"]

\* Array.prototype.join: the elements with the separator between them
RECURSIVE Join(_, _)
Join(s, sep) ==
  IF s = <<>> THEN <<>>
  ELSE IF Len(s) = 1 THEN <<s[1]>>
  ELSE <<s[1], sep>> \o Join(Tail(s), sep)

\* resultsData
ResultsData ==
  [metadata |->
     [runsPerPage |-> numRuns,
      measurementType |-> "cold-load",
      networkCondition |->
        IF allResults # <<>> /\ "networkCondition" \in DOMAIN allResults[1]
        THEN allResults[1].networkCondition ELSE networkCondition,
      chromeVersion |->
        IF allResults # <<>> THEN allResults[1].chromeVersion ELSE "unknown",
      compressionType |->
        IF allResults # <<>> THEN allResults[1].compressionType ELSE "gzip"],
   results |-> allResults]

\* a variant that leaves the section out when a single framework failed
Markdown_gt1 ==
  << [title |-> "Methodology",
      runs |-> numRuns,
      chromeVersion |->
        IF allResults # <<>> THEN allResults[1].chromeVersion ELSE "unknown",
      compression |->
        IF allResults # <<>> THEN allResults[1].compressionType ELSE "gzip"],
     generateMarkdownTable(allResults, "board"),
     generateMarkdownTable(allResults, "home") >>
  \o (IF Len(failedFrameworks) > 1
      THEN << [title |-> "Failed Measurements",
               list |-> Join(failedFrameworks, ", ")] >>
      ELSE <<>>)

\* the markdown report, as its sequence of sections
Markdown ==
  << [title |-> "Methodology",
      runs |-> numRuns,
      chromeVersion |->
        IF allResults # <<>> THEN allResults[1].chromeVersion ELSE "unknown",
      compression |->
        IF allResults # <<>> THEN allResults[1].compressionType ELSE "gzip"],
     generateMarkdownTable(allResults, "board"),
     generateMarkdownTable(allResults, "home") >>
  \o (IF Len(failedFrameworks) > 0
      THEN << [title |-> "Failed Measurements",
               list |-> Join(failedFrameworks, ", ")] >>
      ELSE <<>>)

\* one entry of the legacy lists
LegacyEntry(r) == [framework |-> r.framework, jsUncompressed |-> r.median, requests |-> 0]

LegacyList(page) ==
  LET sorted == SortByMedian(FilterPage(allResults, page))
  IN [k \in 1..Len(sorted) |-> LegacyEntry(sorted[k])]

\* legacySummary
LegacySummary == [boardPage |-> LegacyList("board"), homePage |-> LegacyList("home")]

\* a variant that writes the JSON report as soon as one framework is measured
WriteJson_early ==
  /\ pc = "measure"
  /\ Len(started) >= 1
  /\ disk' = disk \cup {METRICS_DIR}
  /\ written' = Append(written, [path |-> JSON_FILE, content |-> ResultsData])
  /\ pc' = "markdown"
  /\ UNCHANGED <<args, i, numRuns, networkCondition, checked, missingBuilds, started,
                 running, procLog, allResults, failedFrameworks, exitCode>>

\* a variant that gives up when there is no result to report
WriteJson_abortEmpty ==
  /\ pc = "measure"
  /\ Len(started) = Len(FRAMEWORKS)
  /\ disk' = disk \cup {METRICS_DIR}
  /\ written' = Append(written, [path |-> JSON_FILE, content |-> ResultsData])
  /\ IF allResults = <<>> THEN pc' = "exit" /\ exitCode' = 1
     ELSE pc' = "markdown" /\ exitCode' = exitCode
  /\ UNCHANGED <<args, i, numRuns, networkCondition, checked, missingBuilds, started,
                 running, procLog, allResults, failedFrameworks>>

\* the measurement loop has ended: metrics/ is created when missing and
\* final-measurements.json is written
WriteJson ==
  /\ pc = "measure"
  /\ Len(started) = Len(FRAMEWORKS)
  /\ disk' = disk \cup {METRICS_DIR}
  /\ written' = Append(written, [path |-> JSON_FILE, content |-> ResultsData])
  /\ pc' = "markdown"
  /\ UNCHANGED <<args, i, numRuns, networkCondition, checked, missingBuilds, started,
                 running, procLog, allResults, failedFrameworks, exitCode>>

\* final-measurements.md is composed and written
WriteMarkdown ==
  /\ pc = "markdown"
  /\ written' = Append(written, [path |-> MD_FILE, content |-> Markdown])
  /\ pc' = "legacy"
  /\ UNCHANGED <<args, i, numRuns, networkCondition, disk, checked, missingBuilds,
                 started, running, procLog, allResults, failedFrameworks, exitCode>>

\* bundle-summary.json is composed and written
WriteLegacy ==
  /\ pc = "legacy"
  /\ written' = Append(written, [path |-> LEGACY_FILE, content |-> LegacySummary])
  /\ pc' = "summary"
  /\ UNCHANGED <<args, i, numRuns, networkCondition, disk, checked, missingBuilds,
                 started, running, procLog, allResults, failedFrameworks, exitCode>>

\* the console summary is printed and main returns
Summary ==
  /\ pc = "summary"
  /\ pc' = "done"
  /\ exitCode' = 0
  /\ UNCHANGED <<args, i, numRuns, networkCondition, disk, checked, missingBuilds,
                 started, running, procLog, allResults, failedFrameworks, written>>

(***************************************************************************)
(* Specifications.                                                         *)
(***************************************************************************)
\* the build directories FRAMEWORKS names
BuildPaths ==
  UNION {{<<FRAMEWORKS[k].dir, FRAMEWORKS[k].buildCheck[b]>> :
            b \in 1..Len(FRAMEWORKS[k].buildCheck)} : k \in 1..Len(FRAMEWORKS)}

\* the build directories of the first n frameworks
BuildPathsUpTo(n) == {p \in BuildPaths : \E k \in 1..n : FRAMEWORKS[k].dir = p[1]}

Medians == {1024, 1587}

InitWith(argLists, disks) ==
  /\ pc = "args"
  /\ args \in argLists
  /\ i = 1
  /\ numRuns = Num(DefaultRuns)
  /\ networkCondition = DefaultNetwork
  /\ disk \in disks
  /\ checked = <<>>
  /\ missingBuilds = <<>>
  /\ started = <<>>
  /\ running = {}
  /\ procLog = <<>>
  /\ allResults = <<>>
  /\ failedFrameworks = <<>>
  /\ written = <<>>
  /\ exitCode = -1

\* the steps of main() that do not depend on a subprocess
Step ==
  \/ ParseArg
  \/ ArgsDone
  \/ ValidateBuild
  \/ ValidateDone
  \/ ExecStart
  \/ WriteJson
  \/ WriteMarkdown
  \/ WriteLegacy
  \/ Summary

\* Spec: one accepted and one rejected command line, two disks, and every
\* subprocess outcome of up to MaxRecords records of one bundle size
MainArgs == {<<NETWORK_FLAG, NET_SLOW_3G, RUNS_FLAG, <<"3">>>>, <<RUNS_FLAG, <<"0">>>>}

MainDisks == {BuildPaths, BuildPathsUpTo(Len(FRAMEWORKS) - 1)}

Init == InitWith(MainArgs, MainDisks)

Return ==
  \E out \in Outcomes(started[Len(started)].name, {1024}, MaxRecords) : ExecReturn(out)

Next == Step \/ (pc = "exec" /\ Return)

Spec == Init /\ [][Next]_vars

\* SpecTables: a subprocess throws or prints up to MaxRecords records, of
\* either bundle size for the board page
TableOutcomes(name) ==
  {o \in Outcomes(name, Medians, MaxRecords) :
     /\ o.threw \/ o.array
     /\ \A k \in 1..Len(o.items) : o.items[k].page = "board" \/ o.items[k].median = 1024}

ReturnTables == \E out \in TableOutcomes(started[Len(started)].name) : ExecReturn(out)

NextTables == Step \/ (pc = "exec" /\ ReturnTables)

SpecTables == Init /\ [][NextTables]_vars

\* the outcomes the other specifications draw from: the three failures, an
\* empty array and an array of one record
FewOutcomes(name) ==
  {o \in Outcomes(name, {1024}, 1) : o.items = <<>> \/ o.items[1].page = "board"}

ReturnFew == \E out \in FewOutcomes(started[Len(started)].name) : ExecReturn(out)

NextFew == Step \/ (pc = "exec" /\ ReturnFew)

\* SpecBuild: every combination of existing build directories, with and
\* without metrics/
BuildDisks == {d \cup m : d \in SUBSET BuildPaths, m \in {{}, {METRICS_DIR}}}

InitBuild == InitWith({<<RUNS_FLAG, <<"3">>>>}, BuildDisks)

SpecBuild == InitBuild /\ [][NextFew]_vars

\* SpecArgs: every command line of up to MaxArgs arguments over ArgTokens;
\* a subprocess either throws or prints one record
ArgTokens ==
  {RUNS_FLAG, NETWORK_FLAG, NET_4G, NET_3G, NET_SLOW_3G,
   <<"5">>, <<"0">>, <<"-", "2">>, <<"5", "g">>}

TwoOutcomes(name) == {o \in FewOutcomes(name) : o.threw \/ o.items # <<>>}

ReturnTwo == \E out \in TwoOutcomes(started[Len(started)].name) : ExecReturn(out)

NextArgs == Step \/ (pc = "exec" /\ ReturnTwo)

InitArgs == InitWith(SeqsUpTo(ArgTokens, MaxArgs), {BuildPaths})

SpecArgs == InitArgs /\ [][NextArgs]_vars

\* SpecLive: main() takes its next step whenever it has one, and every
\* execSync call returns or throws
SpecLive == Init /\ [][NextFew]_vars /\ WF_vars(NextFew)

(***************************************************************************)
(* Properties.                                                             *)
(***************************************************************************)
PostLoop == {"markdown", "legacy", "summary", "done"}

NamesOf(s) == [k \in 1..Len(s) |-> s[k].name]
PathsOf(s) == [k \in 1..Len(s) |-> s[k].path]
IsPrefix(s, t) == Len(s) <= Len(t) /\ s = SubSeq(t, 1, Len(s))
NoDuplicates(s) == \A j, k \in 1..Len(s) : s[j] = s[k] => j = k
Range(s) == {s[k] : k \in 1..Len(s)}

\* the positions in FRAMEWORKS of the frameworks none of whose build
\* directories is on the disk
MissingOnDisk ==
  {k \in 1..Len(FRAMEWORKS) :
     \A b \in 1..Len(FRAMEWORKS[k].buildCheck) :
       <<FRAMEWORKS[k].dir, FRAMEWORKS[k].buildCheck[b]>> \notin disk}

\* the names of the frameworks at the positions in K, in FRAMEWORKS order
NamesAt(K) ==
  LET idx == SelectSeq([k \in 1..Len(FRAMEWORKS) |-> k], LAMBDA k : k \in K)
  IN [j \in 1..Len(idx) |-> FRAMEWORKS[idx[j]].name]

\* main() has left build validation by process.exit(1)
AbortedInValidation == pc = "exit" /\ checked # <<>>

\* C1: when some framework has none of its build directories, the run exits
\* with status 1 once every framework has been checked, all the missing
\* frameworks are collected, no subprocess is started and no report is
\* written; when every framework has a build directory, validation does not
\* abort the run.
C1_BuildValidation ==
  /\ (MissingOnDisk # {} /\ pc \notin {"args", "validate"} /\ checked # <<>>) =>
        /\ pc = "exit"
        /\ exitCode = 1
        /\ checked = FrameworkNames
        /\ missingBuilds = NamesAt(MissingOnDisk)
  /\ MissingOnDisk # {} => started = <<>> /\ written = <<>> /\ running = {}
  /\ MissingOnDisk = {} => ~AbortedInValidation

\* C1 witness: the run has aborted with two missing builds, the first of them
\* not the first framework.
C1_Witness ==
  /\ AbortedInValidation
  /\ Len(missingBuilds) >= 2
  /\ missingBuilds[1] # FRAMEWORKS[1].name

\* the subprocess logged in e failed: execSync threw, or its output was no JSON
\* array
Failed(e) == e.out.threw \/ ~e.out.json \/ ~e.out.array

\* C2: a framework whose subprocess fails is in failedFrameworks, the run is
\* not aborted, and every framework of FRAMEWORKS is measured by the time the
\* loop has ended, whichever frameworks failed.
C2_FailureContinues ==
  /\ \A k \in 1..Len(procLog) :
        Failed(procLog[k]) =>
          /\ procLog[k].name \in Range(failedFrameworks)
          /\ exitCode \in {-1, 0}
          /\ pc # "exit"
  /\ pc \in PostLoop =>
        /\ NamesOf(started) = FrameworkNames
        /\ NamesOf(procLog) = FrameworkNames

\* C2 witness: the run is complete, the first and the last framework failed
\* (one by a throw, one by unparsable output) and another one succeeded.
C2_Witness ==
  /\ pc = "done"
  /\ procLog[1].out.threw
  /\ ~procLog[Len(procLog)].out.threw /\ ~procLog[Len(procLog)].out.json
  /\ \E k \in 1..Len(procLog) : ~Failed(procLog[k])

\* C3: at most one subprocess is in flight; frameworks are started in
\* FRAMEWORKS order; a subprocess starts only when the one before it has
\* finished and has been folded into allResults or failedFrameworks; the
\* first one starts only after every build has been validated.
C3_Sequential ==
  /\ Cardinality(running) <= 1
  /\ IsPrefix(NamesOf(started), FrameworkNames)
  /\ IsPrefix(NamesOf(procLog), NamesOf(started))
  /\ running # {} =>
        /\ running = {started[Len(started)].name}
        /\ Len(procLog) = Len(started) - 1
  /\ running = {} => Len(procLog) = Len(started)
  /\ \A k \in 1..Len(procLog) :
        Failed(procLog[k]) <=> procLog[k].name \in Range(failedFrameworks)
  /\ started # <<>> => checked = FrameworkNames /\ missingBuilds = <<>>

\* C3 witness: the second subprocess is in flight and the first one failed.
C3_Witness ==
  /\ pc = "exec"
  /\ Len(started) = 2
  /\ running = {FRAMEWORKS[2].name}
  /\ failedFrameworks = <<FRAMEWORKS[1].name>>

\* the number of logged subprocesses that succeeded
Successes == Cardinality({k \in 1..Len(procLog) : ~Failed(procLog[k])})

\* C4: no framework is started twice and none is twice in failedFrameworks;
\* at every loop boundary the successes and the failures add up to the
\* frameworks attempted, and to FRAMEWORKS.length once the loop has ended.
C4_NoRetry ==
  /\ NoDuplicates(NamesOf(started))
  /\ NoDuplicates(failedFrameworks)
  /\ pc = "measure" => Successes + Len(failedFrameworks) = Len(started)
  /\ pc \in PostLoop =>
        /\ Len(started) = Len(FRAMEWORKS)
        /\ Successes + Len(failedFrameworks) = Len(FRAMEWORKS)
  /\ pc = "exit" => started = <<>>

\* C4 witness: the loop has ended with two failures and a success.
C4_Witness ==
  /\ pc = "markdown"
  /\ Len(failedFrameworks) >= 2
  /\ Successes >= 1

BadRunsValue(p) == parseInt(args[p + 1]).nan \/ parseInt(args[p + 1]).v < 1

\* some --runs or --network on the command line is followed by a value that
\* is not acceptable
ArgsRejected ==
  \E p \in 1..(Len(args) - 1) :
    \/ args[p] = RUNS_FLAG /\ BadRunsValue(p)
    \/ args[p] = NETWORK_FLAG /\ args[p + 1] \notin {NET_4G, NET_3G, NET_SLOW_3G}

NoFlagGiven == \A p \in 1..Len(args) : args[p] \notin {RUNS_FLAG, NETWORK_FLAG}

\* C6: a command line with a rejected --runs or --network value ends in exit
\* status 1 before any build is validated, any subprocess started or any file
\* written; without flags the run uses 10 runs and 4g; every subprocess gets
\* the validated numRuns and networkCondition, the same for all frameworks.
C6_Arguments ==
  /\ ArgsRejected =>
        /\ pc \in {"args", "exit"}
        /\ pc = "exit" => exitCode = 1
        /\ checked = <<>> /\ started = <<>> /\ written = <<>>
  /\ pc \notin {"args", "exit"} => ~ArgsRejected
  /\ \A k \in 1..Len(started) :
        /\ started[k].runs = numRuns
        /\ ~started[k].runs.nan /\ started[k].runs.v >= 1
        /\ started[k].network = networkCondition
        /\ started[k].network \in {NET_4G, NET_3G, NET_SLOW_3G}
        /\ NoFlagGiven => started[k].runs = Num(10) /\ started[k].network = NET_4G
        /\ started[k].runs = started[1].runs /\ started[k].network = started[1].network

\* C6 witness: the run has exited on a rejected value that follows an
\* accepted flag.
C6_Witness == pc = "exit" /\ ArgsRejected /\ i > 1 /\ exitCode = 1

\* the positions of results whose record is of the page
PositionsOf(results, page) == {k \in 1..Len(results) : results[k].page = page}

\* row is the table row of record r: its framework, and as raw size the
\* tenth of a kB nearest to its median (the larger one on a tie)
Prints(row, r) ==
  /\ row.framework = r.framework
  /\ 2 * (row.raw * BytesPerKB - 10 * r.median) <= BytesPerKB
  /\ 2 * (10 * r.median - row.raw * BytesPerKB) < BytesPerKB

\* rows holds one row for each record of the page and no other row, the
\* smaller raw size first (no two values of Medians print the same)
RowsMatch(rows, results, page) ==
  /\ Len(rows) = Cardinality(PositionsOf(results, page))
  /\ \A k \in PositionsOf(results, page) :
        Cardinality({j \in 1..Len(rows) : Prints(rows[j], results[k])})
        = Cardinality({j \in PositionsOf(results, page) : results[j] = results[k]})
  /\ \A j \in 1..(Len(rows) - 1) : rows[j].raw <= rows[j + 1].raw

TableOf(md, page) ==
  md[CHOOSE k \in 1..Len(md) :
       md[k].title = (IF page = "home" THEN "Home Page Performance"
                      ELSE "Board Page Performance")]

\* C7: each table of the markdown report has one row for each record of its
\* page and none of the other page, smallest raw bundle first; composing it
\* leaves the results as they were when the JSON report was written; the
\* legacy lists hold the same records in the same order.
C7_Tables ==
  /\ Len(written) >= 2 =>
        /\ \A page \in Pages :
              RowsMatch(TableOf(written[2].content, page).rows, allResults, page)
        /\ allResults = written[1].content.results
  /\ Len(written) >= 3 =>
        LET legacy == written[3].content
            board == TableOf(written[2].content, "board").rows
            home == TableOf(written[2].content, "home").rows
        IN /\ [k \in 1..Len(legacy.boardPage) |-> legacy.boardPage[k].framework]
                = [k \in 1..Len(board) |-> board[k].framework]
           /\ [k \in 1..Len(legacy.homePage) |-> legacy.homePage[k].framework]
                = [k \in 1..Len(home) |-> home[k].framework]
           /\ \A k \in 1..(Len(legacy.boardPage) - 1) :
                 legacy.boardPage[k].jsUncompressed <= legacy.boardPage[k + 1].jsUncompressed
           /\ \A k \in 1..(Len(legacy.homePage) - 1) :
                 legacy.homePage[k].jsUncompressed <= legacy.homePage[k + 1].jsUncompressed

\* C7 witness: the three reports are written, the board table has three rows
\* and the results came in with a larger bundle before a smaller one.
C7_Witness ==
  /\ Len(written) = 3
  /\ Len(TableOf(written[2].content, "board").rows) >= 3
  /\ \E j, k \in PositionsOf(allResults, "board") :
        j < k /\ allResults[j].median > allResults[k].median

\* the record lists of the successful subprocesses of log, one after another
RECURSIVE Contributions(_)
Contributions(log) ==
  IF log = <<>> THEN <<>>
  ELSE (IF Failed(Head(log)) THEN <<>> ELSE Head(log).out.items)
       \o Contributions(Tail(log))

\* C8: allResults is the concatenation, in FRAMEWORKS order, of the record
\* lists of the frameworks that succeeded; a framework in failedFrameworks
\* contributes no record, and a framework that contributed none is failed
\* only if its subprocess failed.
C8_AllOrNothing ==
  /\ allResults = Contributions(procLog)
  /\ IsPrefix(NamesOf(procLog), FrameworkNames)
  /\ failedFrameworks = NamesOf(SelectSeq(procLog, Failed))
  /\ \A k \in 1..Len(allResults) : allResults[k].framework \notin Range(failedFrameworks)
  /\ pc \in PostLoop => Len(procLog) = Len(FRAMEWORKS)

\* C8 witness: the loop has ended, a framework whose output did not parse is
\* failed, and a framework before it and one after it contributed records.
C8_Witness ==
  /\ pc \in PostLoop
  /\ \E k \in 2..(Len(procLog) - 1) :
        /\ ~procLog[k].out.threw /\ ~procLog[k].out.json
        /\ procLog[k - 1].out.items # <<>>
        /\ procLog[k + 1].out.items # <<>>

\* the elements of a joined list: those at its odd positions
JoinedElements(list) == [k \in 1..((Len(list) + 1) \div 2) |-> list[2 * k - 1]]

FailedSections(md) == {k \in 1..Len(md) : md[k].title = "Failed Measurements"}

\* C9: the markdown report has the Failed Measurements section exactly when a
\* framework failed, and the section lists the failed frameworks, each once,
\* in the order they were measured.
C9_FailedSection ==
  Len(written) >= 2 =>
    LET md == written[2].content IN
    /\ FailedSections(md) # {} <=> \E k \in 1..Len(procLog) : Failed(procLog[k])
    /\ Cardinality(FailedSections(md)) <= 1
    /\ \A k \in FailedSections(md) :
          /\ JoinedElements(md[k].list) = NamesOf(SelectSeq(procLog, Failed))
          /\ NoDuplicates(JoinedElements(md[k].list))
          /\ \A j \in 1..Len(md[k].list) : j % 2 = 0 => md[k].list[j] = ", "

\* C9 witness: the markdown report is written with a section that lists two
\* failed frameworks, a successful one between them.
C9_Witness ==
  /\ Len(written) >= 2
  /\ \E k \in FailedSections(written[2].content) :
        Len(written[2].content[k].list) = 3
  /\ ~Failed(procLog[2])

AllFailed == Len(failedFrameworks) = Len(FRAMEWORKS)

====
